---- MODULE Spec2Model ----
(***************************************************************************)
(* Model of src/components/WebGLCanvas.tsx: a React component that draws   *)
(* a triangle with WebGL and moves its top vertex with the mouse.          *)
(*                                                                         *)
(* The host runtime is single threaded: the mount effect, each mousemove   *)
(* dispatch and the unmount cleanup run to completion, so each is one      *)
(* action.  The WebGL driver and the console are a record `dev` that the   *)
(* operators below thread through in the order of the calls in the source. *)
(* Outcomes the code cannot control (context available, shader created or  *)
(* compiled, program created or linked, buffer created) are inputs of      *)
(* Mount.                                                                  *)
(*                                                                         *)
(* Numbers are exact rationals [n, d] in lowest terms.  The pixel offsets  *)
(* used are multiples of 160 (x) and 120 (y), for which px/640 and py/480  *)
(* are dyadic, so the IEEE double results of the source equal the          *)
(* rationals computed here.                                                *)
(***************************************************************************)
EXTENDS Integers, Sequences, FiniteSets

VARIABLES phase, topVertexRef, listeners, cleanup, dev, nEvents, lastEvent

vars == <<phase, topVertexRef, listeners, cleanup, dev, nEvents, lastEvent>>

\* ---------------------------------------------------------------- bounds
MaxEvents == 2

\* ------------------------------------------------------------- constants
CanvasWidth == 640
CanvasHeight == 480

Null == "null"
VERTEX_SHADER == "VERTEX_SHADER"
FRAGMENT_SHADER == "FRAGMENT_SHADER"
ShaderTypes == {VERTEX_SHADER, FRAGMENT_SHADER}

\* pixel offsets inside and outside the canvas, and bounding rectangles
OffsetXs == {-160, 0, 160, 320, 640, 800}
OffsetYs == {0, 240, 480, 600}
Rects == {[left |-> 0, top |-> 0], [left |-> 8, top |-> 16]}

\* ------------------------------------------------------------- rationals
Abs(n) == IF n < 0 THEN -n ELSE n

RECURSIVE GCD(_, _)
GCD(a, b) == IF b = 0 THEN a ELSE GCD(b, a % b)

Frac(n, d) ==
  LET g == GCD(Abs(n), d) IN [n |-> n \div g, d |-> d \div g]

Num(k) == [n |-> k, d |-> 1]
RDiv(a, b) == IF b.n > 0 THEN Frac(a.n * b.d, a.d * b.n)
                         ELSE Frac(-(a.n * b.d), a.d * (-b.n))
RMul(a, b) == Frac(a.n * b.n, a.d * b.d)
RSub(a, b) == Frac(a.n * b.d - b.n * a.d, a.d * b.d)
RLe(a, b) == a.n * b.d <= b.n * a.d

Point(x, y) == [x |-> Num(x), y |-> Num(y)]

\* ------------------------------------------------------- driver + console
Call(d, op, arg) == [d EXCEPT !.calls = Append(@, [op |-> op, arg |-> arg])]

ShaderHandle(type) == IF type = VERTEX_SHADER THEN "vs" ELSE "fs"

EmptyDev ==
  [calls |-> <<>>,
   shader |-> [t \in ShaderTypes |-> "none"],
   deleted |-> {},
   program |-> "none",
   buffer |-> Null,
   bound |-> Null,
   data |-> <<>>,
   uniform |-> <<>>,
   frames |-> <<>>]

\* the outcomes of one mount that the code does not control
Envs ==
  [ctx : BOOLEAN,
   create : [ShaderTypes -> BOOLEAN],
   compile : [ShaderTypes -> BOOLEAN],
   prog : BOOLEAN,
   link : BOOLEAN,
   buf : BOOLEAN]

\* ---------------------------------------------------------- loadShader
\* lines 117-124: the compile-status check failed
loadShaderOnCompileError_noDelete(d, type) ==
  LET sh == ShaderHandle(type)
      d1 == Call([d EXCEPT !.shader[type] = "failed"], "console.error", sh)
  IN  [d |-> d1, ret |-> Null]

loadShaderOnCompileError(d, type) ==
  LET sh == ShaderHandle(type)
      d1 == Call([d EXCEPT !.shader[type] = "failed"], "console.error", sh)
      d2 == Call([d1 EXCEPT !.deleted = @ \cup {sh}], "deleteShader", sh)
  IN  [d |-> d2, ret |-> Null]

loadShader(d, type, env) ==
  LET d1 == Call(d, "createShader", type)
  IN  IF ~env.create[type]
      THEN [d |-> d1, ret |-> Null]
      ELSE LET sh == ShaderHandle(type)
               d2 == Call([d1 EXCEPT !.shader[type] = "created"],
                          "shaderSource", sh)
               d3 == Call(d2, "compileShader", sh)
           IN  IF ~env.compile[type]
               THEN loadShaderOnCompileError(d3, type)
               ELSE [d |-> [d3 EXCEPT !.shader[type] = "compiled"],
                     ret |-> sh]

\* --------------------------------------------------- initShaderProgram
\* lines 95-103: the link-status check
checkLinkStatus_ignored(d, shaderProgram) ==
  IF d.program # "linked"
  THEN [d |-> Call(d, "console.error", shaderProgram), ret |-> shaderProgram]
  ELSE [d |-> d, ret |-> shaderProgram]

checkLinkStatus(d, shaderProgram) ==
  IF d.program # "linked"
  THEN [d |-> Call(d, "console.error", shaderProgram), ret |-> Null]
  ELSE [d |-> d, ret |-> shaderProgram]

initShaderProgram(d, env) ==
  LET v == loadShader(d, VERTEX_SHADER, env)
      f == loadShader(v.d, FRAGMENT_SHADER, env)
  IN  IF v.ret = Null \/ f.ret = Null
      THEN [d |-> f.d, ret |-> Null]
      ELSE LET d1 == Call(f.d, "createProgram", "")
           IN  IF ~env.prog
               THEN [d |-> d1, ret |-> Null]
               ELSE LET d2 == Call(Call(d1, "attachShader", v.ret),
                                   "attachShader", f.ret)
                        d3 == Call([d2 EXCEPT !.program =
                                      IF env.link THEN "linked"
                                                  ELSE "linkfailed"],
                                   "linkProgram", "prog")
                    IN  checkLinkStatus(d3, "prog")

\* --------------------------------------------------------- initBuffers
positions == <<Point(0, 1), Point(-1, -1), Point(1, -1)>>

bindBuffer(d, b) == Call([d EXCEPT !.bound = b], "bindBuffer", b)

\* gl.bufferData writes the store of the bound buffer; with no buffer bound
\* the driver records INVALID_OPERATION and writes nothing
bufferData(d, arr) ==
  Call([d EXCEPT !.data = IF d.bound = Null THEN @ ELSE arr],
       "bufferData", d.bound)

initBuffers(d, env) ==
  LET positionBuffer == IF env.buf THEN "buf" ELSE Null
      d1 == Call([d EXCEPT !.buffer = positionBuffer], "createBuffer", "")
      d2 == bindBuffer(d1, positionBuffer)
      d3 == bufferData(d2, positions)
  IN  [d |-> d3, ret |-> [position |-> positionBuffer]]

\* ----------------------------------------------------------- drawScene
Frame(d, programInfo, topVertex) ==
  [top |-> topVertex,
   program |-> programInfo.program,
   linked |-> d.program = "linked",
   buffer |-> d.bound,
   data |-> IF d.bound = Null THEN <<>> ELSE d.data]

drawScene_newBuffer(d, programInfo, buffers, topVertex) ==
  LET d1 == Call(Call(d, "clearColor", "black"), "clear", "COLOR_BUFFER_BIT")
      d2 == Call(d1, "useProgram", programInfo.program)
      d3 == bindBuffer(Call(d2, "createBuffer", ""), buffers.position)
      d4 == Call(Call(bufferData(d3, positions), "vertexAttribPointer",
                      programInfo.vertexPosition),
                 "enableVertexAttribArray", programInfo.vertexPosition)
      d5 == Call([d4 EXCEPT !.uniform = <<topVertex>>],
                 "uniform2f", programInfo.topVertex)
  IN  Call([d5 EXCEPT !.frames = Append(@, Frame(d5, programInfo, topVertex))],
           "drawArrays", "TRIANGLES")

drawScene(d, programInfo, buffers, topVertex) ==
  LET d1 == Call(Call(d, "clearColor", "black"), "clear", "COLOR_BUFFER_BIT")
      d2 == Call(d1, "useProgram", programInfo.program)
      d3 == bindBuffer(d2, buffers.position)
      d4 == Call(Call(d3, "vertexAttribPointer", programInfo.vertexPosition),
                 "enableVertexAttribArray", programInfo.vertexPosition)
      d5 == Call([d4 EXCEPT !.uniform = <<topVertex>>],
                 "uniform2f", programInfo.topVertex)
  IN  Call([d5 EXCEPT !.frames = Append(@, Frame(d5, programInfo, topVertex))],
           "drawArrays", "TRIANGLES")

\* ----------------------------------------------------- handleMouseMove
ToNdcX(clientX, left, width) ==
  RSub(RMul(RDiv(Num(clientX - left), Num(width)), Num(2)), Num(1))

ToNdcY_unflipped(clientY, top, height) ==
  RSub(RMul(RDiv(Num(clientY - top), Num(height)), Num(2)), Num(1))

ToNdcY(clientY, top, height) ==
  RSub(Num(1), RMul(RDiv(Num(clientY - top), Num(height)), Num(2)))

\* l is the registered closure (it captured programInfo and buffers),
\* cur is topVertexRef.current before the event
handleMouseMove_staleDraw(d, l, cur, event, rect) ==
  LET x == ToNdcX(event.clientX, rect.left, CanvasWidth)
      y == ToNdcY(event.clientY, rect.top, CanvasHeight)
  IN  [d |-> drawScene(d, l.programInfo, l.buffers, cur),
       top |-> [x |-> x, y |-> y]]

handleMouseMove_rewriteBuffer(d, l, cur, event, rect) ==
  LET x == ToNdcX(event.clientX, rect.left, CanvasWidth)
      y == ToNdcY(event.clientY, rect.top, CanvasHeight)
      t == [x |-> x, y |-> y]
      d1 == bufferData(bindBuffer(d, l.buffers.position),
                       <<t, positions[2], positions[3]>>)
  IN  [d |-> drawScene(d1, l.programInfo, l.buffers, t), top |-> t]

handleMouseMove(d, l, cur, event, rect) ==
  LET x == ToNdcX(event.clientX, rect.left, CanvasWidth)
      y == ToNdcY(event.clientY, rect.top, CanvasHeight)
      t == [x |-> x, y |-> y]
  IN  [d |-> drawScene(d, l.programInfo, l.buffers, t), top |-> t]

\* ------------------------------------------------- the component and effect
\* the canvas element React attached to canvasRef before the effect runs
canvasRef == "canvas"

InitialTopVertex_origin == Point(0, 0)

InitialTopVertex == Point(0, 1)

Listener(programInfo, buffers) ==
  [type |-> "mousemove", fn |-> "handleMouseMove",
   programInfo |-> programInfo, buffers |-> buffers]

EffectResult(d, ls, cl) == [d |-> d, listeners |-> ls, cleanup |-> cl]

\* lines 56-73: initial draw, then listener registration, then the cleanup
drawThenListen_listenFirst(d, programInfo, buffers, top) ==
  LET l == Listener(programInfo, buffers)
      d1 == Call(d, "addEventListener", "mousemove")
      d2 == drawScene(d1, programInfo, buffers, top)
  IN  EffectResult(d2, {l}, <<l>>)

drawThenListen(d, programInfo, buffers, top) ==
  LET l == Listener(programInfo, buffers)
      d1 == drawScene(d, programInfo, buffers, top)
      d2 == Call(d1, "addEventListener", "mousemove")
  IN  EffectResult(d2, {l}, <<l>>)

useEffect(env, top) ==
  IF canvasRef = Null
  THEN EffectResult(EmptyDev, {}, <<>>)
  ELSE
  LET d0 == Call(EmptyDev, "getContext", "webgl")
  IN  IF ~env.ctx
      THEN EffectResult(Call(d0, "console.error", "gl"), {}, <<>>)
      ELSE
      LET sp == initShaderProgram(d0, env)
      IN  IF sp.ret = Null
          THEN EffectResult(sp.d, {}, <<>>)
          ELSE
          LET d1 == Call(Call(sp.d, "getAttribLocation", "aVertexPosition"),
                         "getUniformLocation", "uTopVertex")
              programInfo == [program |-> sp.ret,
                              vertexPosition |-> "aVertexPosition",
                              topVertex |-> "uTopVertex"]
              b == initBuffers(d1, env)
          IN  drawThenListen(b.d, programInfo, b.ret, top)

\* lines 71-73: the cleanup the effect returned, if it returned one
runCleanup_keepListener(ls, cl) == ls

runCleanup(ls, cl) == ls \ {cl[i] : i \in 1..Len(cl)}

\* ------------------------------------------------------------------ actions
Init ==
  /\ phase = "rendered"
  /\ topVertexRef = InitialTopVertex
  /\ listeners = {}
  /\ cleanup = <<>>
  /\ dev = EmptyDev
  /\ nEvents = 0
  /\ lastEvent = <<>>

\* React runs the effect once after the first commit (dependency list [])
Mount ==
  /\ phase = "rendered"
  /\ \E env \in Envs :
       LET r == useEffect(env, topVertexRef)
       IN  /\ dev' = r.d
           /\ listeners' = r.listeners
           /\ cleanup' = r.cleanup
  /\ phase' = "mounted"
  /\ UNCHANGED <<topVertexRef, nEvents, lastEvent>>

\* a mousemove event dispatched on the canvas element
MouseMove ==
  /\ nEvents < MaxEvents
  /\ \E rect \in Rects, px \in OffsetXs, py \in OffsetYs :
       LET event == [clientX |-> rect.left + px, clientY |-> rect.top + py]
       IN  /\ lastEvent' = <<[event |-> event, rect |-> rect,
                              phase |-> phase,
                              handled |-> listeners # {}]>>
           /\ IF listeners = {}
              THEN UNCHANGED <<topVertexRef, dev>>
              ELSE LET l == CHOOSE h \in listeners : TRUE
                       r == handleMouseMove(dev, l, topVertexRef, event, rect)
                   IN  /\ topVertexRef' = r.top
                       /\ dev' = r.d
  /\ nEvents' = nEvents + 1
  /\ UNCHANGED <<phase, listeners, cleanup>>

Unmount ==
  /\ phase = "mounted"
  /\ phase' = "unmounted"
  /\ listeners' = runCleanup(listeners, cleanup)
  /\ cleanup' = <<>>
  /\ UNCHANGED <<topVertexRef, dev, nEvents, lastEvent>>

Next == Mount \/ MouseMove \/ Unmount

Spec == Init /\ [][Next]_vars

TypeOK ==
  /\ phase \in {"rendered", "mounted", "unmounted"}
  /\ Cardinality(listeners) <= 1
  /\ nEvents \in 0..MaxEvents

\* ------------------------------------------------------- reading the state
Ops(op) == {i \in DOMAIN dev.calls : dev.calls[i].op = op}
OpsArg(op, arg) == {i \in Ops(op) : dev.calls[i].arg = arg}
NCalls(op) == Cardinality(Ops(op))
AllBefore(as, bs) == \A i \in as, j \in bs : i < j
Frames == dev.frames
Triangle ==
  <<[x |-> [n |-> 0, d |-> 1], y |-> [n |-> 1, d |-> 1]],
    [x |-> [n |-> -1, d |-> 1], y |-> [n |-> -1, d |-> 1]],
    [x |-> [n |-> 1, d |-> 1], y |-> [n |-> -1, d |-> 1]]>>
DefaultTop == Triangle[1]

CtxFailed == OpsArg("console.error", "gl") # {}
CompileFailed == \E t \in ShaderTypes : dev.shader[t] = "failed"
LinkFailed == dev.program = "linkfailed"
InitFailed == CtxFailed \/ CompileFailed \/ LinkFailed

Handled == lastEvent # <<>> /\ lastEvent[1].handled
OffsetX(e) == e.event.clientX - e.rect.left
OffsetY(e) == e.event.clientY - e.rect.top
\* x = (px / W) * 2 - 1 and y = 1 - (py / H) * 2 as single fractions
ExpectedTop(e) ==
  [x |-> Frac(2 * OffsetX(e) - CanvasWidth, CanvasWidth),
   y |-> Frac(CanvasHeight - 2 * OffsetY(e), CanvasHeight)]
InUnit(r) == -r.d <= r.n /\ r.n <= r.d

\* ----------------------------------------------------------------- claims

\* C1: once the component is unmounted, a mousemove dispatched on the canvas
\* runs no handler: no step taken in phase "unmounted" adds a frame, makes a
\* driver call or changes topVertexRef, and no listener is left registered.
C1_NoHandlerAfterUnmount ==
  [][phase = "unmounted" =>
       /\ dev' = dev
       /\ topVertexRef' = topVertexRef
       /\ listeners = {} /\ listeners' = {}]_vars

\* unmounted right after a successful mount (only the initial frame exists),
\* then an event was dispatched
C1_Witness ==
  /\ phase = "unmounted"
  /\ Len(Frames) = 1
  /\ lastEvent # <<>> /\ lastEvent[1].phase = "unmounted"

C3_FailureIsTerminal ==
  InitFailed =>
    /\ phase # "rendered"
    /\ NCalls("getContext") = 1
    /\ listeners = {} /\ cleanup = <<>>
    /\ Frames = <<>>
    /\ topVertexRef = DefaultTop

\* a link failure, the component still mounted after two events
C3_Witness ==
  /\ LinkFailed
  /\ phase = "mounted"
  /\ nEvents >= 2
  /\ lastEvent[1].phase = "mounted"

\* C4: the first frame drawn after a successful initialization has the
\* top-vertex uniform (0,1), and it is drawn before any handler ran.
C4_InitialTopVertex ==
  Frames # <<>> =>
    /\ Frames[1].top = DefaultTop
    /\ AllBefore({i \in Ops("drawArrays") :
                    \A j \in Ops("drawArrays") : i <= j},
                 Ops("addEventListener"))

\* an initial frame followed by a frame with another top vertex
C4_Witness ==
  /\ Len(Frames) >= 2
  /\ Frames[2].top # DefaultTop

\* C5: for the last handled event with offset (px,py) = client - rect,
\* topVertexRef is ((2px-W)/W, (H-2py)/H); inside 0<=px<=W, 0<=py<=H both
\* coordinates are in [-1,1]; (0,0) gives (-1,1), (W,H) gives (1,-1) and
\* (W/2,H/2) gives (0,0).
C5_Transform ==
  Handled =>
    LET e == lastEvent[1]
        px == OffsetX(e)
        py == OffsetY(e)
        t == topVertexRef
    IN  /\ t = ExpectedTop(e)
        /\ (0 <= px /\ px <= CanvasWidth /\ 0 <= py /\ py <= CanvasHeight)
             => InUnit(t.x) /\ InUnit(t.y)
        /\ (px = 0 /\ py = 0) => (t.x = [n |-> -1, d |-> 1] /\ t.y = [n |-> 1, d |-> 1])
        /\ (px = CanvasWidth /\ py = CanvasHeight)
             => (t.x = [n |-> 1, d |-> 1] /\ t.y = [n |-> -1, d |-> 1])
        /\ (2 * px = CanvasWidth /\ 2 * py = CanvasHeight)
             => (t.x = [n |-> 0, d |-> 1] /\ t.y = [n |-> 0, d |-> 1])

\* the centre of the canvas was handled, with a shifted bounding rectangle
C5_Witness ==
  /\ Handled
  /\ lastEvent[1].rect.left = 8
  /\ 2 * OffsetX(lastEvent[1]) = CanvasWidth
  /\ 2 * OffsetY(lastEvent[1]) = CanvasHeight
  /\ topVertexRef = [x |-> [n |-> 0, d |-> 1], y |-> [n |-> 0, d |-> 1]]

\* C6: on a mounted component whose initialization succeeded, every
\* mousemove step writes the transformed position to topVertexRef and draws
\* exactly one frame, whose top-vertex uniform is that new value; the offset
\* (W/2, 0) draws with (0,1).
C6_MoveThenRedraw ==
  [][(nEvents' = nEvents + 1 /\ phase = "mounted" /\ Frames # <<>>) =>
       LET e == lastEvent'[1]
           fs == dev'.frames
       IN  /\ topVertexRef' = ExpectedTop(e)
           /\ Len(fs) = Len(Frames) + 1
           /\ \A i \in DOMAIN Frames : fs[i] = Frames[i]
           /\ fs[Len(fs)].top = topVertexRef'
           /\ dev'.uniform = <<topVertexRef'>>
           /\ (2 * OffsetX(e) = CanvasWidth /\ OffsetY(e) = 0)
                => fs[Len(fs)].top = DefaultTop]_vars

\* the top vertex was moved away and then back with an event at (W/2, 0)
C6_Witness ==
  /\ Len(Frames) = 3
  /\ Frames[2].top # DefaultTop
  /\ Handled
  /\ 2 * OffsetX(lastEvent[1]) = CanvasWidth /\ OffsetY(lastEvent[1]) = 0
  /\ Frames[3].top = DefaultTop

\* C7: once uploaded, the vertex buffer holds (0,1), (-1,-1), (1,-1) and is
\* written only once; every frame is drawn from those contents and two frames
\* differ in nothing but the top-vertex uniform.
C7_GeometryFixed ==
  /\ NCalls("bufferData") <= 1
  /\ dev.buffer # Null => dev.data = Triangle
  /\ \A i \in DOMAIN Frames :
       /\ Frames[i].buffer # Null => Frames[i].data = Triangle
       /\ \A j \in DOMAIN Frames :
            [Frames[i] EXCEPT !.top = DefaultTop] =
            [Frames[j] EXCEPT !.top = DefaultTop]

\* three frames from the uploaded buffer, with different top vertices
C7_Witness ==
  /\ Len(Frames) = 3
  /\ dev.buffer # Null
  /\ Frames[2].top # Frames[1].top
  /\ Frames[3].top # Frames[2].top

\* C8: in one mount cycle the context is requested once, at most two shaders,
\* one program and one buffer are created, the program is linked at most once
\* and the buffer uploaded at most once, however many events and redraws
\* follow.
C8_AcquireOnce ==
  /\ NCalls("getContext") = (IF phase = "rendered" THEN 0 ELSE 1)
  /\ NCalls("createShader") <= 2
  /\ NCalls("createProgram") <= 1
  /\ NCalls("linkProgram") <= 1
  /\ NCalls("createBuffer") <= 1
  /\ NCalls("bufferData") <= 1
  /\ Frames # <<>> =>
       /\ NCalls("createProgram") = 1
       /\ NCalls("createBuffer") = 1

\* three frames drawn with the resources of the one mount
C8_Witness ==
  /\ Len(Frames) = 3
  /\ NCalls("createBuffer") = 1
  /\ NCalls("createProgram") = 1
  /\ nEvents = 2

ProgramOps ==
  Ops("createShader") \cup Ops("compileShader") \cup Ops("createProgram")
    \cup Ops("linkProgram") \cup Ops("getUniformLocation")
BufferOps == Ops("createBuffer") \cup Ops("bufferData")
FirstDraw == {i \in Ops("drawArrays") : \A j \in Ops("drawArrays") : i <= j}

\* the mount steps in their order; nothing after a context, shader or
\* program failure
MountOrder ==
  /\ AllBefore(Ops("getContext"), ProgramOps)
  /\ AllBefore(ProgramOps, BufferOps)
  /\ AllBefore(BufferOps, Ops("drawArrays"))
  /\ AllBefore(FirstDraw, Ops("addEventListener"))
  /\ Ops("addEventListener") # {} =>
       /\ Frames # <<>> /\ Frames[1].top = DefaultTop
       /\ ProgramOps # {} /\ BufferOps # {}
  /\ listeners # {} => Ops("addEventListener") # {}
  /\ CtxFailed => ProgramOps = {}
  /\ (InitFailed \/ dev.program # "linked") =>
       /\ BufferOps = {}
       /\ Ops("drawArrays") = {}
       /\ Ops("addEventListener") = {}

\* C9 (as stated): the mount steps run in the order context, program, buffer,
\* initial draw with (0,1), listener; the listener is registered only after
\* the initial draw, and no later step runs when an earlier stage failed,
\* the buffer stage included.
C9_Original ==
  /\ MountOrder
  /\ (Ops("createBuffer") # {} /\ dev.buffer = Null) =>
       /\ Ops("drawArrays") = {}
       /\ Ops("addEventListener") = {}

\* C9 (amended): the same order; no later step runs when context acquisition,
\* shader creation or compilation, or program creation or linking failed.
\* A failed buffer creation is not checked: the initial draw and the listener
\* registration follow it.
C9_MountOrder ==
  /\ MountOrder
  /\ Ops("createBuffer") # {} =>
       /\ Len(Frames) >= 1
       /\ NCalls("addEventListener") = 1

\* a mount that went through all five steps and then handled an event
C9_Witness ==
  /\ NCalls("addEventListener") = 1
  /\ Len(Frames) >= 2
  /\ Handled

====
